---- MODULE Spec2Model ----
(***************************************************************************)
(* TrendLens.ML/ml_service.py: the SalesForecastModel singleton            *)
(* (forecast_model), its two artifact files and the /train and /predict    *)
(* handlers.                                                               *)
(*                                                                         *)
(* Numbers.  Training bodies of the model have at most two rows, where     *)
(* StandardScaler and LinearRegression have closed forms over the          *)
(* rationals: mean_ = (x1+x2)/2, scale_ = |x1-x2|/2 (1 when the column is  *)
(* constant), intercept_ = (y1+y2)/2 and coef_ the minimum-norm solution   *)
(* of the centred system.  mean_ and scale_ are stored doubled (mean2,     *)
(* scale2), intercept_ doubled (intercept2), coef_ as numerators over the  *)
(* denominator coefDen; predictions are reduced fractions [num, den].      *)
(* The field "by" of a fitted object is the number of the train call that  *)
(* fit it (history, not read by the program).                              *)
(***************************************************************************)
EXTENDS Integers, Sequences, FiniteSets, TLC

\* ------------------------------------------------------------------ bounds
MaxDates == 2
MaxTrainCalls == 2

\* ------------------------------------------------------------ arithmetic
Abs(n) == IF n < 0 THEN -n ELSE n

Sgn(n) == IF n < 0 THEN -1 ELSE IF n = 0 THEN 0 ELSE 1

RECURSIVE Gcd(_, _)
Gcd(a, b) == IF b = 0 THEN a ELSE Gcd(b, a % b)

\* a fraction num/den (den # 0) in lowest terms with a positive denominator
Frac(num, den) ==
    LET g == Gcd(Abs(num), Abs(den))
        s == IF den < 0 THEN -1 ELSE 1
    IN  [num |-> s * (num \div g), den |-> s * (den \div g)]

\* --------------------------------------------------------- pd.to_datetime
\* the year, month and day fields of the date strings the requests use;
\* a string without such fields is not in the domain
IsoFields ==
    [s \in {"2024-01-01", "2024-01-02", "2024-01-03", "2024-06-15", "2024-02-30"} |->
        CASE s = "2024-01-01" -> <<2024, 1, 1>>
          [] s = "2024-01-02" -> <<2024, 1, 2>>
          [] s = "2024-01-03" -> <<2024, 1, 3>>
          [] s = "2024-06-15" -> <<2024, 6, 15>>
          [] s = "2024-02-30" -> <<2024, 2, 30>>]

IsLeap(y) == (y % 4 = 0 /\ y % 100 # 0) \/ y % 400 = 0

DaysInMonth(y, m) ==
    IF m = 2 THEN (IF IsLeap(y) THEN 29 ELSE 28)
    ELSE IF m \in {4, 6, 9, 11} THEN 30 ELSE 31

\* TRUE when pd.to_datetime raises on the string
ParseRaises(s) ==
    \/ s \notin DOMAIN IsoFields
    \/ LET f == IsoFields[s]
       IN  \/ f[2] < 1 \/ f[2] > 12
           \/ f[3] < 1 \/ f[3] > DaysInMonth(f[1], f[2])

\* variant: day-of-month is not validated, only the form of the string
to_datetime_raises_lenient(strs) ==
    \E i \in 1..Len(strs) : strs[i] \notin DOMAIN IsoFields

\* pd.to_datetime on a list: raises when one element does
to_datetime_raises(strs) == \E i \in 1..Len(strs) : ParseRaises(strs[i])

to_datetime(strs) == [i \in 1..Len(strs) |-> IsoFields[strs[i]]]

\* ------------------------------------------------------- prepare_features
RECURSIVE DaysBeforeMonth(_, _)
DaysBeforeMonth(y, m) ==
    IF m = 1 THEN 0 ELSE DaysBeforeMonth(y, m - 1) + DaysInMonth(y, m - 1)

dayofyear(d) == DaysBeforeMonth(d[1], d[2]) + d[3]

\* proleptic Gregorian ordinal, day 1 = 0001-01-01
Ordinal(d) ==
    LET y == d[1] - 1
    IN  y * 365 + (y \div 4) - (y \div 100) + (y \div 400) + dayofyear(d)

\* Monday = 0 ... Sunday = 6
dayofweek(d) == (Ordinal(d) + 6) % 7

\* one row <<day_of_year, month, day_of_week>> per date
prepare_features(dates) ==
    [i \in 1..Len(dates) |-> <<dayofyear(dates[i]), dates[i][2], dayofweek(dates[i])>>]

\* ---------------------------------------------------------- StandardScaler
Cols == 1..3

StandardScaler ==
    [class |-> "StandardScaler", fitted |-> FALSE,
     mean2 |-> <<0, 0, 0>>, scale2 |-> <<2, 2, 2>>, by |-> 0]

\* StandardScaler.fit on one or two rows; self is refit in place
scaler_fit(self, X, call) ==
    LET a == X[1]
        b == X[Len(X)]
    IN  [self EXCEPT !.fitted = TRUE,
                     !.mean2 = [c \in Cols |-> a[c] + b[c]],
                     !.scale2 = [c \in Cols |-> IF a[c] = b[c] THEN 2 ELSE Abs(a[c] - b[c])],
                     !.by = call]

\* StandardScaler.transform: (x - mean_) / scale_ per column
scaler_transform(sc, X) ==
    [i \in 1..Len(X) |-> [c \in Cols |-> Frac(2 * X[i][c] - sc.mean2[c], sc.scale2[c])]]

\* -------------------------------------------------------- LinearRegression
LinearRegression ==
    [class |-> "LinearRegression", fitted |-> FALSE,
     intercept2 |-> 0, coefNum |-> <<0, 0, 0>>, coefDen |-> 2, by |-> 0]

\* y as the Amount column of the frame: <<v>> a number, <<>> NaN (the key
\* is absent from that record while another record has it)
IsNaN(v) == v = <<>>

regressor_fit_raises(y) == \E i \in 1..Len(y) : IsNaN(y[i])

\* variant: an estimator that is already fitted is not fit again
regressor_fit_once(self, X_scaled, y, call) ==
    IF self.fitted THEN self
    ELSE LET n  == Len(y)
             z  == [c \in Cols |-> Sgn(X_scaled[1][c].num)]
             k  == Cardinality({c \in Cols : z[c] # 0})
         IN  [self EXCEPT !.fitted = TRUE,
                          !.intercept2 = y[1][1] + y[n][1],
                          !.coefNum = [c \in Cols |-> (y[1][1] - y[n][1]) * z[c]],
                          !.coefDen = IF k = 0 THEN 2 ELSE 2 * k,
                          !.by = call]

\* LinearRegression.fit on one or two rows of scaled features; self is
\* refit in place
regressor_fit(self, X_scaled, y, call) ==
    LET n  == Len(y)
        y1 == y[1][1]
        y2 == y[n][1]
        z  == [c \in Cols |-> Sgn(X_scaled[1][c].num)]
        k  == Cardinality({c \in Cols : z[c] # 0})
    IN  [self EXCEPT !.fitted = TRUE,
                     !.intercept2 = y1 + y2,
                     !.coefNum = [c \in Cols |-> (y1 - y2) * z[c]],
                     !.coefDen = IF k = 0 THEN 2 ELSE 2 * k,
                     !.by = call]

\* intercept_ + coef_ . row, for one scaled row
Infer(reg, row) ==
    LET D  == row[1].den * row[2].den * row[3].den
        t1 == reg.coefNum[1] * row[1].num * row[2].den * row[3].den
        t2 == reg.coefNum[2] * row[2].num * row[1].den * row[3].den
        t3 == reg.coefNum[3] * row[3].num * row[1].den * row[2].den
    IN  Frac(reg.intercept2 * (reg.coefDen \div 2) * D + t1 + t2 + t3, reg.coefDen * D)

\* LinearRegression.predict(...).tolist()
regressor_predict(reg, X_scaled) ==
    [i \in 1..Len(X_scaled) |-> Infer(reg, X_scaled[i])]

\* ------------------------------------------------------------------ joblib
Absent == [format |-> "absent"]

Truncated == [format |-> "truncated"]

\* joblib.dump: the bytes written for an object
joblib_dump(obj) == [format |-> "joblib", class |-> obj.class, state |-> obj]

\* os.path.exists
exists(file) == file.format # "absent"

\* joblib.load raises on a missing or unreadable file
joblib_load_raises(file) == file.format # "joblib"

joblib_load(file) == file.state

\* ------------------------------------------------------------ pd.DataFrame
\* DataFrame(list of records): a column for every key some record has; a
\* record without the key has NaN (<<>>) in that column
DataFrame(sales_data) ==
    [columns |-> UNION {DOMAIN sales_data[i] : i \in 1..Len(sales_data)},
     Date    |-> [i \in 1..Len(sales_data) |-> sales_data[i].Date],
     Amount  |-> [i \in 1..Len(sales_data) |->
                    IF "Amount" \in DOMAIN sales_data[i]
                    THEN <<sales_data[i].Amount>> ELSE <<>>]]

\* ------------------------------------------------------ SalesForecastModel
VARIABLES
    model,            \* forecast_model.model
    scaler,           \* forecast_model.scaler
    is_trained,       \* forecast_model.is_trained
    sales_model_pkl,  \* the file sales_model.pkl
    scaler_pkl,       \* the file scaler.pkl
    request,          \* the request handled last
    response,         \* the response returned last
    calls,            \* number of /train requests received so far
    hist,             \* history: outcome of the last train, and the pair held by
                      \* the last Trained instance that a restart discarded
    train_pc,         \* position of the thread serving /train
    train_loc,        \* its locals
    predict_pc,       \* position of the thread serving /predict
    predict_loc,      \* its locals
    raced             \* history: a /train and a /predict have overlapped

object == <<model, scaler, is_trained>>

files == <<sales_model_pkl, scaler_pkl>>

threads == <<train_pc, train_loc, predict_pc, predict_loc, raced>>

vars == <<model, scaler, is_trained, sales_model_pkl, scaler_pkl,
          request, response, calls, hist,
          train_pc, train_loc, predict_pc, predict_loc, raced>>

\* the instance and the two files as one value
State(m, s, t, fm, fs) ==
    [model |-> m, scaler |-> s, is_trained |-> t,
     sales_model_pkl |-> fm, scaler_pkl |-> fs]

Current == State(model, scaler, is_trained, sales_model_pkl, scaler_pkl)

\* an artifact write that fails: io.fail names the file, io.partial says
\* whether bytes were written before the failure
NoFailure == [fail |-> "none", partial |-> FALSE]

IoOutcomes ==
    {NoFailure} \cup
    [fail : {"sales_model.pkl", "scaler.pkl"}, partial : BOOLEAN]

FailedWrite(file, io) == IF io.partial THEN Truncated ELSE file

\* variant: the scaler is dumped before it is fit
train_dumps_before_fit(st, sales_data, call, io) ==
    LET df  == DataFrame(sales_data)
        X   == prepare_features(to_datetime(df.Date))
        y   == df.Amount
        s1  == [st EXCEPT !.scaler = scaler_fit(st.scaler, X, call)]
        Xs  == scaler_transform(s1.scaler, X)
        s2  == [s1 EXCEPT !.model = regressor_fit(s1.model, Xs, y, call)]
        s3  == [s2 EXCEPT !.is_trained = TRUE]
        s4  == [s3 EXCEPT !.sales_model_pkl = joblib_dump(s3.model)]
        s5  == [s4 EXCEPT !.scaler_pkl = joblib_dump(st.scaler)]
    IN  IF "Date" \notin df.columns THEN [st |-> st, raised |-> "KeyError"]
        ELSE IF to_datetime_raises(df.Date) THEN [st |-> st, raised |-> "ParseError"]
        ELSE IF "Amount" \notin df.columns THEN [st |-> st, raised |-> "KeyError"]
        ELSE IF regressor_fit_raises(y) THEN [st |-> s1, raised |-> "ValueError"]
        ELSE IF io.fail = "sales_model.pkl"
             THEN [st |-> [s3 EXCEPT !.sales_model_pkl = FailedWrite(@, io)],
                   raised |-> "OSError"]
        ELSE IF io.fail = "scaler.pkl"
             THEN [st |-> [s4 EXCEPT !.scaler_pkl = FailedWrite(@, io)],
                   raised |-> "OSError"]
        ELSE [st |-> s5, raised |-> "none"]

\* variant: a scaler file that exists is not overwritten
train_keeps_scaler_file(st, sales_data, call, io) ==
    LET df  == DataFrame(sales_data)
        X   == prepare_features(to_datetime(df.Date))
        y   == df.Amount
        s1  == [st EXCEPT !.scaler = scaler_fit(st.scaler, X, call)]
        Xs  == scaler_transform(s1.scaler, X)
        s2  == [s1 EXCEPT !.model = regressor_fit(s1.model, Xs, y, call)]
        s3  == [s2 EXCEPT !.is_trained = TRUE]
        s4  == [s3 EXCEPT !.sales_model_pkl = joblib_dump(s3.model)]
        s5  == IF exists(s4.scaler_pkl) THEN s4
               ELSE [s4 EXCEPT !.scaler_pkl = joblib_dump(s4.scaler)]
    IN  IF "Date" \notin df.columns THEN [st |-> st, raised |-> "KeyError"]
        ELSE IF to_datetime_raises(df.Date) THEN [st |-> st, raised |-> "ParseError"]
        ELSE IF "Amount" \notin df.columns THEN [st |-> st, raised |-> "KeyError"]
        ELSE IF regressor_fit_raises(y) THEN [st |-> s1, raised |-> "ValueError"]
        ELSE IF io.fail = "sales_model.pkl"
             THEN [st |-> [s3 EXCEPT !.sales_model_pkl = FailedWrite(@, io)],
                   raised |-> "OSError"]
        ELSE IF io.fail = "scaler.pkl"
             THEN [st |-> [s4 EXCEPT !.scaler_pkl = FailedWrite(@, io)],
                   raised |-> "OSError"]
        ELSE [st |-> s5, raised |-> "none"]

\* SalesForecastModel.train; the result is the state it leaves and the
\* exception it raised ("none" when it returned)
train(st, sales_data, call, io) ==
    LET df  == DataFrame(sales_data)
        X   == prepare_features(to_datetime(df.Date))
        y   == df.Amount
        s1  == [st EXCEPT !.scaler = scaler_fit(st.scaler, X, call)]
        Xs  == scaler_transform(s1.scaler, X)
        s2  == [s1 EXCEPT !.model = regressor_fit(s1.model, Xs, y, call)]
        s3  == [s2 EXCEPT !.is_trained = TRUE]
        s4  == [s3 EXCEPT !.sales_model_pkl = joblib_dump(s3.model)]
        s5  == [s4 EXCEPT !.scaler_pkl = joblib_dump(s4.scaler)]
    IN  IF "Date" \notin df.columns THEN [st |-> st, raised |-> "KeyError"]
        ELSE IF to_datetime_raises(df.Date) THEN [st |-> st, raised |-> "ParseError"]
        ELSE IF "Amount" \notin df.columns THEN [st |-> st, raised |-> "KeyError"]
        ELSE IF regressor_fit_raises(y) THEN [st |-> s1, raised |-> "ValueError"]
        ELSE IF io.fail = "sales_model.pkl"
             THEN [st |-> [s3 EXCEPT !.sales_model_pkl = FailedWrite(@, io)],
                   raised |-> "OSError"]
        ELSE IF io.fail = "scaler.pkl"
             THEN [st |-> [s4 EXCEPT !.scaler_pkl = FailedWrite(@, io)],
                   raised |-> "OSError"]
        ELSE [st |-> s5, raised |-> "none"]

\* variant: is_trained is set also when sales_model.pkl does not exist
load_model_marks_trained(st) ==
    LET s1 == [st EXCEPT !.model = joblib_load(st.sales_model_pkl)]
        s2 == [s1 EXCEPT !.scaler = joblib_load(s1.scaler_pkl)]
        s3 == [s2 EXCEPT !.is_trained = TRUE]
    IN  IF ~exists(st.sales_model_pkl)
        THEN [st |-> [st EXCEPT !.is_trained = TRUE], raised |-> "none"]
        ELSE IF joblib_load_raises(st.sales_model_pkl)
             THEN [st |-> st, raised |-> "UnpicklingError"]
        ELSE IF ~exists(s1.scaler_pkl)
             THEN [st |-> s1, raised |-> "FileNotFoundError"]
        ELSE IF joblib_load_raises(s1.scaler_pkl)
             THEN [st |-> s1, raised |-> "UnpicklingError"]
        ELSE [st |-> s3, raised |-> "none"]

\* SalesForecastModel.load_model
load_model(st) ==
    LET s1 == [st EXCEPT !.model = joblib_load(st.sales_model_pkl)]
        s2 == [s1 EXCEPT !.scaler = joblib_load(s1.scaler_pkl)]
        s3 == [s2 EXCEPT !.is_trained = TRUE]
    IN  IF ~exists(st.sales_model_pkl) THEN [st |-> st, raised |-> "none"]
        ELSE IF joblib_load_raises(st.sales_model_pkl)
             THEN [st |-> st, raised |-> "UnpicklingError"]
        ELSE IF ~exists(s1.scaler_pkl)
             THEN [st |-> s1, raised |-> "FileNotFoundError"]
        ELSE IF joblib_load_raises(s1.scaler_pkl)
             THEN [st |-> s1, raised |-> "UnpicklingError"]
        ELSE [st |-> s3, raised |-> "none"]

\* SalesForecastModel.predict; used records which objects ran the inference
NotUsed == [scaler_by |-> 0, model_by |-> 0, loaded |-> FALSE]

predict(st, future_dates) ==
    LET ld == IF st.is_trained THEN [st |-> st, raised |-> "none"] ELSE load_model(st)
        s1 == ld.st
        X  == prepare_features(to_datetime(future_dates))
        Xs == scaler_transform(s1.scaler, X)
        fail(e) == [st |-> s1, raised |-> e, predictions |-> <<>>, used |-> NotUsed]
    IN  IF ld.raised # "none" THEN fail(ld.raised)
        ELSE IF to_datetime_raises(future_dates) THEN fail("ParseError")
        ELSE IF ~s1.scaler.fitted THEN fail("NotFittedError")
        ELSE IF Len(future_dates) = 0 THEN fail("ValueError")
        ELSE IF ~s1.model.fitted THEN fail("NotFittedError")
        ELSE [st |-> s1, raised |-> "none",
              predictions |-> regressor_predict(s1.model, Xs),
              used |-> [scaler_by |-> s1.scaler.by, model_by |-> s1.model.by,
                        loaded |-> ~st.is_trained /\ s1.is_trained]]

\* ------------------------------------------------------------ HTTP surface
\* variant: the interval is clamped at zero
confidence_interval_clamped(pred) ==
    IF pred.num < 0 THEN [num |-> 0, den |-> 1]
    ELSE Frac(pred.num * 15, pred.den * 100)

\* float(pred * 0.15)
confidence_interval(pred) == Frac(pred.num * 15, pred.den * 100)

Min(a, b) == IF a < b THEN a ELSE b

\* variant: the predictions are paired with the dates in reverse order
predict_sales_result_reversed(future_dates, predictions) ==
    [i \in 1..Min(Len(future_dates), Len(predictions)) |->
        [date |-> future_dates[i],
         predicted_amount |-> predictions[Len(predictions) + 1 - i],
         confidence_interval |-> confidence_interval(predictions[Len(predictions) + 1 - i])]]

\* zip(future_dates, predictions): as long as the shorter of the two
predict_sales_result(future_dates, predictions) ==
    [i \in 1..Min(Len(future_dates), Len(predictions)) |->
        [date |-> future_dates[i],
         predicted_amount |-> predictions[i],
         confidence_interval |-> confidence_interval(predictions[i])]]

NoRequest == [op |-> "none", sales_data |-> <<>>, dates |-> <<>>]

Reply(op, status, error, result, used) ==
    [op |-> op, status |-> status, error |-> error, result |-> result, used |-> used]

NoResponse == Reply("none", 0, "none", <<>>, NotUsed)

\* the return value of train_model
train_model_response(raised) ==
    IF raised = "none" THEN Reply("train", 200, "none", <<>>, NotUsed)
    ELSE Reply("train", 500, raised, <<>>, NotUsed)

\* the return value of predict_sales
predict_sales_response(future_dates, r) ==
    IF r.raised = "none"
    THEN Reply("predict", 200, "none",
               predict_sales_result(future_dates, r.predictions), r.used)
    ELSE Reply("predict", 500, r.raised, <<>>, NotUsed)

\* ----------------------------------------------------------------- inputs
BodyA == <<[Date |-> "2024-01-01", Amount |-> -10], [Date |-> "2024-01-03", Amount |-> 10]>>

BodyB == <<[Date |-> "2024-06-15", Amount |-> 5]>>

BodyBadDate == <<[Date |-> "2024-01-01", Amount |-> 10], [Date |-> "2024-02-30", Amount |-> 30]>>

BodyNoAmount == <<[Date |-> "2024-01-02"]>>

BodyNaN == <<[Date |-> "2024-01-02", Amount |-> 10], [Date |-> "2024-06-15"]>>

BodyEmpty == <<>>

TrainBodies == {BodyA, BodyB, BodyBadDate, BodyNoAmount, BodyNaN, BodyEmpty}

DateStrings == {"2024-01-01", "2024-01-02", "not-a-date"}

DateLists == UNION {[1..n -> DateStrings] : n \in 0..MaxDates}

\* ------------------------------------------------------------------- Init
NoHist ==
    [last_train_ok |-> FALSE, restart_clean |-> FALSE,
     pre_model |-> LinearRegression, pre_scaler |-> StandardScaler]

NoTrainLoc == [X |-> <<>>, y |-> <<>>, X_scaled |-> <<>>, call |-> 0]

NoPredictLoc == [future_dates |-> <<>>, X |-> <<>>, X_scaled |-> <<>>,
                 scaler_by |-> 0, loaded |-> FALSE]

Init ==
    /\ model = LinearRegression
    /\ scaler = StandardScaler
    /\ is_trained = FALSE
    /\ sales_model_pkl = Absent
    /\ scaler_pkl = Absent
    /\ request = NoRequest
    /\ response = NoResponse
    /\ calls = 0
    /\ hist = NoHist
    /\ train_pc = "idle"
    /\ train_loc = NoTrainLoc
    /\ predict_pc = "idle"
    /\ predict_loc = NoPredictLoc
    /\ raced = FALSE

Install(st) ==
    /\ model' = st.model
    /\ scaler' = st.scaler
    /\ is_trained' = st.is_trained
    /\ sales_model_pkl' = st.sales_model_pkl
    /\ scaler_pkl' = st.scaler_pkl

\* --------------------------------------------- requests served one by one
\* POST /train
train_model ==
    /\ calls < MaxTrainCalls
    /\ \E sales_data \in TrainBodies, io \in IoOutcomes :
         LET r == train(Current, sales_data, calls + 1, io)
         IN  /\ Install(r.st)
             /\ request' = [op |-> "train", sales_data |-> sales_data, dates |-> <<>>]
             /\ response' = train_model_response(r.raised)
             /\ hist' = [hist EXCEPT !.last_train_ok = (r.raised = "none")]
    /\ calls' = calls + 1
    /\ UNCHANGED threads

\* POST /predict
predict_sales ==
    /\ \E future_dates \in DateLists :
         LET r == predict(Current, future_dates)
         IN  /\ Install(r.st)
             /\ request' = [op |-> "predict", sales_data |-> <<>>, dates |-> future_dates]
             /\ response' = predict_sales_response(future_dates, r)
    /\ UNCHANGED <<calls, hist, threads>>

\* the process is started again: forecast_model = SalesForecastModel(),
\* the files stay
Restart ==
    /\ train_pc = "idle" /\ predict_pc = "idle"
    /\ model' = LinearRegression
    /\ scaler' = StandardScaler
    /\ is_trained' = FALSE
    /\ request' = NoRequest
    /\ response' = NoResponse
    /\ hist' = IF is_trained
                THEN [last_train_ok |-> hist.last_train_ok,
                      restart_clean |-> hist.last_train_ok,
                      pre_model |-> model, pre_scaler |-> scaler]
                ELSE [hist EXCEPT !.restart_clean = @ /\ hist.last_train_ok]
    /\ UNCHANGED <<files, calls, threads>>

Next == train_model \/ predict_sales \/ Restart

Spec == Init /\ [][Next]_vars

\* ------------------------------- requests dispatched on two threads
\* One thread serves /train and one serves /predict on the shared
\* forecast_model; a step is one statement of train, predict or load_model.
\* The bodies sent here are the ones train accepts.
AcceptedBodies == {BodyA, BodyB}

\* the date lists sent here have at most one date
ShortDateLists == {ds \in DateLists : Len(ds) <= 1}

Step(tpc, tloc, ppc, ploc) ==
    /\ train_pc' = tpc
    /\ train_loc' = tloc
    /\ predict_pc' = ppc
    /\ predict_loc' = ploc
    /\ raced' = (raced \/ (tpc # "idle" /\ ppc # "idle")
                       \/ (train_pc # "idle" /\ predict_pc # "idle"))

TrainStep(tpc, tloc) == Step(tpc, tloc, predict_pc, predict_loc)

PredictStep(ppc, ploc) == Step(train_pc, train_loc, ppc, ploc)

\* lines 63, 24-28: the request is read, the dates parsed, X and y built
T_prepare ==
    /\ train_pc = "idle"
    /\ calls < MaxTrainCalls
    /\ \E sales_data \in AcceptedBodies :
         LET df == DataFrame(sales_data)
         IN  TrainStep("fit_scaler",
                       [X |-> prepare_features(to_datetime(df.Date)), y |-> df.Amount,
                        X_scaled |-> <<>>, call |-> calls + 1])
    /\ calls' = calls + 1
    /\ UNCHANGED <<object, files, request, response, hist>>

\* line 30: X_scaled = self.scaler.fit_transform(X)
T_fit_scaler ==
    /\ train_pc = "fit_scaler"
    /\ LET sc == scaler_fit(scaler, train_loc.X, train_loc.call)
       IN  /\ scaler' = sc
           /\ TrainStep("fit_model",
                        [train_loc EXCEPT !.X_scaled = scaler_transform(sc, train_loc.X)])
    /\ UNCHANGED <<model, is_trained, files, request, response, calls, hist>>

\* line 31: self.model.fit(X_scaled, y)
T_fit_model ==
    /\ train_pc = "fit_model"
    /\ model' = regressor_fit(model, train_loc.X_scaled, train_loc.y, train_loc.call)
    /\ TrainStep("set_trained", train_loc)
    /\ UNCHANGED <<scaler, is_trained, files, request, response, calls, hist>>

\* line 32: self.is_trained = True
T_set_trained ==
    /\ train_pc = "set_trained"
    /\ is_trained' = TRUE
    /\ TrainStep("dump_model", train_loc)
    /\ UNCHANGED <<model, scaler, files, request, response, calls, hist>>

\* line 34: joblib.dump(self.model, 'sales_model.pkl')
T_dump_model ==
    /\ train_pc = "dump_model"
    /\ sales_model_pkl' = joblib_dump(model)
    /\ TrainStep("dump_scaler", train_loc)
    /\ UNCHANGED <<object, scaler_pkl, request, response, calls, hist>>

\* lines 35, 65: joblib.dump(self.scaler, 'scaler.pkl'), then the reply
T_dump_scaler ==
    /\ train_pc = "dump_scaler"
    /\ scaler_pkl' = joblib_dump(scaler)
    /\ response' = train_model_response("none")
    /\ TrainStep("idle", NoTrainLoc)
    /\ UNCHANGED <<object, sales_model_pkl, request, calls, hist>>

\* the predict thread stops with an exception: the except branch replies
P_raise(e) ==
    /\ response' = Reply("predict", 500, e, <<>>, NotUsed)
    /\ PredictStep("idle", NoPredictLoc)

\* lines 72, 38: the request is read, is_trained is tested
P_test_trained ==
    /\ predict_pc = "idle"
    /\ \E future_dates \in ShortDateLists :
         PredictStep(IF is_trained THEN "to_datetime" ELSE "exists",
                     [NoPredictLoc EXCEPT !.future_dates = future_dates])
    /\ UNCHANGED <<object, files, request, response, calls, hist>>

\* line 49: if os.path.exists('sales_model.pkl')
P_exists ==
    /\ predict_pc = "exists"
    /\ PredictStep(IF exists(sales_model_pkl) THEN "load_model" ELSE "to_datetime",
                   predict_loc)
    /\ UNCHANGED <<object, files, request, response, calls, hist>>

\* line 50: self.model = joblib.load('sales_model.pkl')
P_load_model ==
    /\ predict_pc = "load_model"
    /\ IF joblib_load_raises(sales_model_pkl)
       THEN /\ P_raise(IF exists(sales_model_pkl) THEN "UnpicklingError"
                                                  ELSE "FileNotFoundError")
            /\ UNCHANGED model
       ELSE /\ model' = joblib_load(sales_model_pkl)
            /\ PredictStep("load_scaler", predict_loc)
            /\ UNCHANGED response
    /\ UNCHANGED <<scaler, is_trained, files, request, calls, hist>>

\* line 51: self.scaler = joblib.load('scaler.pkl')
P_load_scaler ==
    /\ predict_pc = "load_scaler"
    /\ IF joblib_load_raises(scaler_pkl)
       THEN /\ P_raise(IF exists(scaler_pkl) THEN "UnpicklingError"
                                             ELSE "FileNotFoundError")
            /\ UNCHANGED scaler
       ELSE /\ scaler' = joblib_load(scaler_pkl)
            /\ PredictStep("set_trained", predict_loc)
            /\ UNCHANGED response
    /\ UNCHANGED <<model, is_trained, files, request, calls, hist>>

\* line 52: self.is_trained = True
P_set_trained ==
    /\ predict_pc = "set_trained"
    /\ is_trained' = TRUE
    /\ PredictStep("to_datetime", [predict_loc EXCEPT !.loaded = TRUE])
    /\ UNCHANGED <<model, scaler, files, request, response, calls, hist>>

\* lines 41-42: the dates are parsed, X is built
P_to_datetime ==
    /\ predict_pc = "to_datetime"
    /\ IF to_datetime_raises(predict_loc.future_dates)
       THEN P_raise("ParseError")
       ELSE /\ PredictStep("transform",
                   [predict_loc EXCEPT
                       !.X = prepare_features(to_datetime(predict_loc.future_dates))])
            /\ UNCHANGED response
    /\ UNCHANGED <<object, files, request, calls, hist>>

\* line 43: X_scaled = self.scaler.transform(X)
P_transform ==
    /\ predict_pc = "transform"
    /\ IF ~scaler.fitted THEN P_raise("NotFittedError")
       ELSE IF Len(predict_loc.X) = 0 THEN P_raise("ValueError")
       ELSE /\ PredictStep("predict",
                   [predict_loc EXCEPT !.X_scaled = scaler_transform(scaler, predict_loc.X),
                                       !.scaler_by = scaler.by])
            /\ UNCHANGED response
    /\ UNCHANGED <<object, files, request, calls, hist>>

\* lines 45-46, 75-84: self.model.predict(X_scaled), then the reply
P_predict ==
    /\ predict_pc = "predict"
    /\ IF ~model.fitted THEN P_raise("NotFittedError")
       ELSE /\ response' =
                 Reply("predict", 200, "none",
                       predict_sales_result(predict_loc.future_dates,
                                            regressor_predict(model, predict_loc.X_scaled)),
                       [scaler_by |-> predict_loc.scaler_by, model_by |-> model.by,
                        loaded |-> predict_loc.loaded])
            /\ PredictStep("idle", NoPredictLoc)
    /\ UNCHANGED <<object, files, request, calls, hist>>

NextThreads ==
    \/ T_prepare \/ T_fit_scaler \/ T_fit_model \/ T_set_trained
    \/ T_dump_model \/ T_dump_scaler
    \/ P_test_trained \/ P_exists \/ P_load_model \/ P_load_scaler \/ P_set_trained
    \/ P_to_datetime \/ P_transform \/ P_predict
    \/ Restart

SpecThreads == Init /\ [][NextThreads]_vars

\* ------------------------------------------------------------ properties
\* the fitted parameters of an object, without the history field
Params(obj) == [obj EXCEPT !.by = 0]

\* what a client sees of a response
Visible(r) == [status |-> r.status, error |-> r.error, result |-> r.result]

\* the response /predict would give in state st
PredictReply(st, future_dates) ==
    Visible(predict_sales_response(future_dates, predict(st, future_dates)))

\* the step handles a /train request and answers with an error
FailedTrainStep ==
    /\ request'.op = "train"
    /\ response'.op = "train"
    /\ response'.status = 500

Fresh == model = LinearRegression /\ scaler = StandardScaler /\ ~is_trained

NoArtifacts == sales_model_pkl = Absent /\ scaler_pkl = Absent

HasMalformedDate(sales_data) ==
    \E i \in 1..Len(sales_data) : ParseRaises(sales_data[i].Date)

\* C1: a /train that ends in an error response, sent to a Trained model,
\* leaves the in-memory regressor, scaler and is_trained flag as they were,
\* and every following /predict answers as it would have before.
CexC1 ==
    [][(is_trained /\ FailedTrainStep) =>
          /\ Params(model') = Params(model)
          /\ Params(scaler') = Params(scaler)
          /\ is_trained' = is_trained
          /\ \A ds \in DateLists : PredictReply(Current', ds) = PredictReply(Current, ds)]_vars

\* C2 (as stated): /predict on a fresh instance with no artifact file fails
\* with the not-fitted (model-not-ready) error for every list of dates,
\* returns no prediction and leaves the instance Untrained.
CexC2 ==
    [][(Fresh /\ NoArtifacts /\ request'.op = "predict") =>
          /\ response'.status = 500
          /\ response'.error = "NotFittedError"
          /\ response'.result = <<>>
          /\ Fresh']_vars

\* C2 (amended): /predict on a fresh instance with no artifact file answers
\* every list of dates with an error payload and status 500, returns no
\* prediction and leaves the instance Untrained; the error is the not-fitted
\* error when every date parses (the empty list included) and the date
\* parsing error when a date is malformed.
ThmC2 ==
    [][(Fresh /\ NoArtifacts /\ request'.op = "predict") =>
          /\ response'.status = 500
          /\ response'.error = IF to_datetime_raises(request'.dates)
                               THEN "ParseError" ELSE "NotFittedError"
          /\ response'.result = <<>>
          /\ Fresh']_vars

WitC2 ==
    /\ Fresh /\ NoArtifacts
    /\ response.op = "predict" /\ response.status = 500
    /\ response.error = "NotFittedError"
    /\ Len(request.dates) = MaxDates

\* C3: when the last train before a restart succeeded, a /predict that loads
\* the artifacts after the restart returns, for the same dates, exactly what
\* the instance discarded by the restart would have returned.
ThmC3 ==
    (/\ response.op = "predict" /\ response.status = 200
     /\ response.used.loaded /\ hist.restart_clean)
    => response.result =
         predict_sales_result(request.dates,
            regressor_predict(hist.pre_model,
               scaler_transform(hist.pre_scaler,
                  prepare_features(to_datetime(request.dates)))))

WitC3 ==
    /\ response.op = "predict" /\ response.status = 200
    /\ response.used.loaded /\ hist.restart_clean
    /\ \E i \in 1..Len(response.result) : response.result[i].predicted_amount.num # 5

\* C4: whenever /predict runs inference and returns a result, the scaler and
\* the regressor it used (held in memory or just loaded from the two files)
\* were fit by the same train call.
CexC4 ==
    (response.op = "predict" /\ response.status = 200)
    => response.used.scaler_by = response.used.model_by

\* C5: a /train whose body has a malformed date string answers with an error
\* payload and status 500 and changes neither the instance nor the files;
\* a /predict that follows it on a Trained, fitted instance succeeds and
\* infers with that regressor and scaler.
ThmC5 ==
    [][/\ (request'.op = "train" /\ HasMalformedDate(request'.sales_data)) =>
             /\ response'.status = 500 /\ response'.error = "ParseError"
             /\ UNCHANGED <<object, files>>
       /\ (/\ response.op = "train" /\ response.error = "ParseError"
           /\ is_trained /\ model.fitted /\ scaler.fitted
           /\ request'.op = "predict" /\ request'.dates # <<>>
           /\ ~to_datetime_raises(request'.dates)) =>
             /\ response'.status = 200
             /\ response'.result =
                  predict_sales_result(request'.dates,
                     regressor_predict(model,
                        scaler_transform(scaler,
                           prepare_features(to_datetime(request'.dates)))))
             /\ UNCHANGED <<object, files>>]_vars

WitC5 ==
    /\ response.op = "train" /\ response.status = 500
    /\ response.error = "ParseError"
    /\ is_trained /\ model.fitted /\ scaler.fitted
    /\ model.by = scaler.by

\* C6: after a train call that returns without error, is_trained is true,
\* the regressor and scaler in memory are the ones fit by that call on its
\* own data, and each artifact file holds the dump of that object.
ThmC6 ==
    (response.op = "train" /\ response.status = 200)
    => LET X  == prepare_features(to_datetime(DataFrame(request.sales_data).Date))
           sc == scaler_fit(StandardScaler, X, calls)
           rg == regressor_fit(LinearRegression, scaler_transform(sc, X),
                               DataFrame(request.sales_data).Amount, calls)
       IN  /\ is_trained
           /\ scaler = sc
           /\ model = rg
           /\ sales_model_pkl = [format |-> "joblib", class |-> "LinearRegression", state |-> rg]
           /\ scaler_pkl = [format |-> "joblib", class |-> "StandardScaler", state |-> sc]

WitC6 ==
    /\ response.op = "train" /\ response.status = 200
    /\ calls = MaxTrainCalls
    /\ model.by = calls /\ sales_model_pkl.state.by = calls /\ scaler_pkl.state.by = calls

\* C7: a successful /predict returns one entry per input date, and the i-th
\* entry carries the i-th input date and the prediction inferred for that
\* date alone.
ThmC7 ==
    (response.op = "predict" /\ response.status = 200)
    => /\ Len(response.result) = Len(request.dates)
       /\ \A i \in 1..Len(request.dates) :
            /\ response.result[i].date = request.dates[i]
            /\ response.result[i].predicted_amount =
                 Infer(model, scaler_transform(scaler,
                          prepare_features(to_datetime(<<request.dates[i]>>)))[1])

WitC7 ==
    /\ response.op = "predict" /\ response.status = 200
    /\ Len(response.result) = MaxDates
    /\ response.result[1].date # response.result[2].date
    /\ response.result[1].predicted_amount # response.result[2].predicted_amount

\* C8: every entry of a successful /predict response has
\* confidence_interval = 0.15 * predicted_amount, also when the predicted
\* amount is zero or negative.
ThmC8 ==
    (response.op = "predict" /\ response.status = 200)
    => \A i \in 1..Len(response.result) :
         LET e == response.result[i]
         IN  /\ e.confidence_interval.den > 0
             /\ 100 * e.confidence_interval.num * e.predicted_amount.den
                  = 15 * e.predicted_amount.num * e.confidence_interval.den

WitC8 ==
    /\ response.op = "predict" /\ response.status = 200
    /\ \E i, j \in 1..Len(response.result) :
         /\ response.result[i].predicted_amount.num < 0
         /\ response.result[i].confidence_interval.num < 0
         /\ response.result[j].predicted_amount.num = 0
         /\ response.result[j].confidence_interval.num = 0

\* C10: a load_model that does not make the instance Trained leaves the
\* in-memory regressor and scaler as they were.
CexC10 ==
    [][(request'.op = "predict" /\ ~is_trained /\ ~is_trained') =>
          (model' = model /\ scaler' = scaler)]_vars

\* C9: with /train and /predict dispatched on two threads, /predict can
\* return a result inferred with a scaler and a regressor of different train
\* calls although no train call fails; it happens only when a train call and
\* a predict call have overlapped.
ThmC9 ==
    (/\ response.op = "predict" /\ response.status = 200
     /\ response.used.scaler_by # response.used.model_by)
    => raced

\* predict has inferred in memory with the scaler the running train re-fit
\* and the regressor of an earlier train
WitC9 ==
    /\ response.op = "predict" /\ response.status = 200
    /\ ~response.used.loaded
    /\ train_pc = "fit_model"
    /\ response.used.scaler_by = train_loc.call
    /\ response.used.model_by > 0
    /\ response.used.model_by < train_loc.call

\* predict has loaded the regressor file the running train wrote and the
\* scaler file of an earlier train
WitC9Files ==
    /\ response.op = "predict" /\ response.status = 200
    /\ response.used.loaded
    /\ train_pc = "dump_scaler"
    /\ response.used.model_by = train_loc.call
    /\ response.used.scaler_by > 0
    /\ response.used.scaler_by < train_loc.call

====
